---- MODULE Spec2Model ----
(***************************************************************************)
(* Model of NotesDatabase (src/app.py): the SQLite-backed catalog of       *)
(* users, notes, ratings and download history, the blob directory, and     *)
(* the process-wide current_user session.                                  *)
(*                                                                         *)
(* Tables are sets of rows.  SQLite runs with its default settings         *)
(* (sqlite3.connect, no PRAGMA foreign_keys), so FOREIGN KEY clauses are   *)
(* not enforced; UNIQUE, CHECK and AUTOINCREMENT are.                      *)
(***************************************************************************)
EXTENDS Integers, Sequences, FiniteSets, TLC

(***************************************************************************)
(* Bounds of the exploration.                                              *)
(***************************************************************************)
MaxNotes == 2          \* successful add_note calls
MaxRatings == 2        \* rows in the ratings table
MaxDownloads == 1      \* rows ever appended to download_history
MaxDelay == 1          \* seconds the clock advances over the uploads

\* The rating numbers (a rating, rating_sum) are counted in halves of a star:
\* rate_note takes any Python number, and a value between two whole numbers of
\* stars is an integer of the model.  One star:
Star == 2

(***************************************************************************)
(* Values that stand for Python's None.                                    *)
(***************************************************************************)
NoStamp == -1
NoPath == [stamp |-> NoStamp, name |-> ""]
None == [id |-> 0, username |-> "", role |-> ""]
NoFile == <<>>

(***************************************************************************)
(* hashlib.sha256(password).hexdigest(): a digest is not the password;     *)
(* distinct passwords of the input set have distinct digests.              *)
(***************************************************************************)
_hash_password(password) == <<"sha256", password>>

(***************************************************************************)
(* Rows written by _create_demo_data on a fresh database.                  *)
(***************************************************************************)
demo_users ==
  { [id |-> 1, username |-> "admin", password |-> _hash_password("admin123"),
     email |-> "admin@university.edu", role |-> "admin"],
    [id |-> 2, username |-> "student1", password |-> _hash_password("pass123"),
     email |-> "student1@university.edu", role |-> "student"],
    [id |-> 3, username |-> "professor", password |-> _hash_password("prof123"),
     email |-> "professor@university.edu", role |-> "teacher"] }

DemoPath(file_name) == [stamp |-> NoStamp, name |-> file_name]

DemoNote(id, title, category, subject, description, uploader_id, tags, file_name) ==
  [id |-> id, title |-> title, category |-> category, subject |-> subject,
   description |-> description, uploader_id |-> uploader_id, upload_date |-> 0,
   downloads |-> 0, tags |-> tags, file_path |-> DemoPath(file_name),
   file_name |-> file_name, rating_sum |-> 0, rating_count |-> 0]

sample_notes ==
  { DemoNote(1, "Introduction to Python Programming", "Computer Science",
             "Programming",
             "Comprehensive guide covering Python basics, data structures, OOP, and best practices for beginners",
             1, <<"python", "programming", "basics", "oop">>,
             "intro_python.pdf"),
    DemoNote(2, "Calculus I - Derivatives and Integrals", "Mathematics",
             "Calculus",
             "Complete notes on differential and integral calculus with solved examples and practice problems",
             2, <<"calculus", "derivatives", "integrals", "mathematics">>,
             "calculus_notes.pdf"),
    DemoNote(3, "Database Management Systems", "Computer Science",
             "Databases",
             "SQL, normalization, transactions, indexing, and database design patterns",
             1, <<"database", "sql", "dbms", "normalization">>,
             "dbms_notes.pdf"),
    DemoNote(4, "Organic Chemistry Reactions", "Chemistry",
             "Organic Chemistry",
             "Common organic reactions, mechanisms, and synthesis strategies",
             3, <<"chemistry", "organic", "reactions", "mechanisms">>,
             "organic_chem.pdf"),
    DemoNote(5, "Data Structures and Algorithms", "Computer Science",
             "DSA",
             "Arrays, linked lists, trees, graphs, sorting, searching, and dynamic programming",
             2, <<"dsa", "algorithms", "data-structures", "programming">>,
             "dsa_notes.pdf") }

DemoNoteCount == Cardinality(sample_notes)
DemoUserCount == Cardinality(demo_users)

(***************************************************************************)
(* Inputs of the calls.                                                    *)
(***************************************************************************)
Usernames == {"ab", "admin", "student1", "professor", "bob", "carol"}
Passwords == {"short", "secret", "admin123", "pass123", "prof123"}
Emails == {"a@x.edu"}
Logins == { <<"admin", "admin123">>, <<"student1", "pass123">>,
            <<"professor", "prof123">> }
NoteIdInputs == {1, 2, 6}
RatedNoteIds == {2, 6}
RatingInputs == {0, 2 * Star, 5 * Star, 6 * Star}
StarInputs == {0, 5 * Star}
\* 0, 3, 4.5, 5 and 5.5 stars
SliderInputs == {0, 3 * Star, 4 * Star + 1, 5 * Star, 5 * Star + 1}
TitleInputs == {"", "T"}
CategoryInputs == {"Math"}
SubjectInputs == {"Calc"}
FileInputs == {NoFile, <<"tmp", "up.txt">>}
TagsInputs == {"", "a, b ,c", " , x y,,\tz\n, "}
QueryInputs == {"", "calc", "DBMS", "systems", "ing", "_"}
CategoryFilters == {"All", "Math", "Computer Science"}
SortInputs == {"recent", "popular", "rating"}

VARIABLES
  users,             \* table users
  notes,             \* table notes
  ratings,           \* table ratings
  download_history,  \* table download_history
  note_seq,          \* sqlite_sequence of notes (AUTOINCREMENT)
  user_seq,          \* sqlite_sequence of users
  download_seq,      \* sqlite_sequence of download_history
  files,             \* paths present in storage_dir
  current_user,      \* NotesDatabase.current_user
  now,               \* the wall clock as last read, in seconds
  conn,              \* the connection of the call in progress, statement by statement
  ret                \* the last call, its arguments and what it returned

tables == <<users, notes, ratings, download_history, note_seq, user_seq, download_seq>>
vars == <<users, notes, ratings, download_history, note_seq, user_seq,
          download_seq, files, current_user, now, conn, ret>>

\* A call that has returned (False, "", None) so far.
Call(op) ==
  [op |-> op, ok |-> FALSE, msg |-> "", user_id |-> 0, file_path |-> NoPath,
   args |-> <<>>, rows |-> <<>>]

\* No call is between its statements.
NoConn ==
  [op |-> "", pc |-> "", note_id |-> 0, rating |-> 0, file_path |-> NoPath,
   notes |-> {}, ratings |-> {}, download_history |-> {}, download_seq |-> 0]

Init ==
  /\ users = demo_users
  /\ notes = sample_notes
  /\ ratings = {}
  /\ download_history = {}
  /\ note_seq = DemoNoteCount
  /\ user_seq = DemoUserCount
  /\ download_seq = 0
  /\ files = { n.file_path : n \in sample_notes }
  /\ current_user = None
  /\ now = 0
  /\ conn = NoConn
  /\ ret = Call("init")

(***************************************************************************)
(* authenticate(username, password)                                        *)
(***************************************************************************)
UserByName(username) == { u \in users : u.username = username }

\* Faulty variant: the stored digest is not compared.
AnyPasswordMatches(user, password) == TRUE

\* user['password'] == self._hash_password(password)
PasswordMatches(user, password) == user.password = _hash_password(password)

authenticate(username, password) ==
  LET found == UserByName(username)
      call == Call("authenticate")
  IN  /\ IF found # {} /\ PasswordMatches(CHOOSE u \in found : TRUE, password)
         THEN LET user == CHOOSE u \in found : TRUE
              IN  /\ current_user' = [id |-> user.id, username |-> user.username,
                                      role |-> user.role]
                  /\ ret' = [call EXCEPT !.ok = TRUE, !.msg = "Welcome back",
                                         !.user_id = user.id]
         ELSE /\ current_user' = current_user
              /\ ret' = [call EXCEPT !.msg = "Invalid username or password"]
      /\ UNCHANGED <<conn, tables, files, now>>

(***************************************************************************)
(* logout()                                                                *)
(***************************************************************************)
logout ==
  /\ current_user' = None
  /\ ret' = [Call("logout") EXCEPT !.ok = TRUE]
  /\ UNCHANGED <<conn, tables, files, now>>

(***************************************************************************)
(* register_user(username, password, email)                                *)
(***************************************************************************)
UsernameTooShort(username) == Len(username) < 3

\* Faulty variant: off by one, a password of 6 characters is refused.
PasswordOfSixTooShort(password) == Len(password) <= 6

PasswordTooShort(password) == Len(password) < 6

\* Faulty variant: the username column is not UNIQUE.
UsernameNeverTaken(username) == FALSE

\* users.username is UNIQUE: the INSERT raises sqlite3.IntegrityError
UsernameTaken(username) == UserByName(username) # {}

register_user(username, password, email) ==
  LET call == Call("register_user")
  IN  /\ IF UsernameTooShort(username)
         THEN /\ ret' = [call EXCEPT !.msg = "Username must be at least 3 characters"]
              /\ UNCHANGED <<users, user_seq>>
         ELSE IF PasswordTooShort(password)
         THEN /\ ret' = [call EXCEPT !.msg = "Password must be at least 6 characters"]
              /\ UNCHANGED <<users, user_seq>>
         ELSE IF UsernameTaken(username)
         THEN /\ ret' = [call EXCEPT !.msg = "Username already exists"]
              /\ UNCHANGED <<users, user_seq>>
         ELSE /\ users' = users \cup
                   { [id |-> user_seq + 1, username |-> username,
                      password |-> _hash_password(password), email |-> email,
                      role |-> "student"] }
              /\ user_seq' = user_seq + 1
              /\ ret' = [call EXCEPT !.ok = TRUE, !.msg = "Registration successful"]
      /\ UNCHANGED <<conn, notes, ratings, download_history, note_seq, download_seq,
                     files, current_user, now>>

(***************************************************************************)
(* add_note(title, category, subject, description, tags, file)             *)
(*   timestamp: what datetime.now() and CURRENT_TIMESTAMP read             *)
(*   copy_ok:   shutil.copy and os.path.getsize raised nothing             *)
(*   insert_ok: the INSERT and the commit raised nothing                   *)
(***************************************************************************)
Basename(name) == name[Len(name)]

\* the characters str.strip() removes, of those the inputs are written with
Whitespace == {" ", "\t", "\n", "\r"}

\* tags.split(","): the pieces between the commas, piece being the one in progress
RECURSIVE split(_, _)
split(text, piece) ==
  IF text = "" THEN <<piece>>
  ELSE IF Head(text) = "," THEN <<piece>> \o split(Tail(text), "")
  ELSE split(Tail(text), piece \o Head(text))

RECURSIVE lstrip(_)
lstrip(text) ==
  IF text # "" /\ Head(text) \in Whitespace THEN lstrip(Tail(text)) ELSE text

RECURSIVE rstrip(_)
rstrip(text) ==
  IF text # "" /\ SubSeq(text, Len(text), Len(text)) \in Whitespace
  THEN rstrip(SubSeq(text, 1, Len(text) - 1))
  ELSE text

\* tag.strip()
strip(text) == rstrip(lstrip(text))

\* Faulty variant: the pieces are kept as they were split.
tags_list_unstripped(tags) == split(tags, "")

\* [tag.strip() for tag in tags.split(",") if tag.strip()]
tags_list(tags) ==
  LET pieces == split(tags, "")
      stripped == [i \in 1..Len(pieces) |-> strip(pieces[i])]
      Kept(tag) == tag # ""
  IN  SelectSeq(stripped, Kept)

UniquePath(timestamp, file_name) == [stamp |-> timestamp, name |-> file_name]

\* Faulty variant: the record is inserted before the file is copied, and stays
\* when the copy fails.
add_note_record_first(title, category, subject, description, tags, file, timestamp, copy_ok, insert_ok) ==
  LET call == Call("add_note")
  IN  /\ IF current_user = None
         THEN /\ ret' = [call EXCEPT !.msg = "Please login first"]
              /\ UNCHANGED <<notes, note_seq, files, now>>
         ELSE IF file = NoFile
         THEN /\ ret' = [call EXCEPT !.msg = "Please upload a file"]
              /\ UNCHANGED <<notes, note_seq, files, now>>
         ELSE IF title = "" \/ category = "" \/ subject = ""
         THEN /\ ret' = [call EXCEPT !.msg = "Please fill all required fields"]
              /\ UNCHANGED <<notes, note_seq, files, now>>
         ELSE LET file_name == Basename(file)
                  file_path == UniquePath(timestamp, file_name)
              IN  IF ~insert_ok
                  THEN /\ ret' = [call EXCEPT !.msg = "Error uploading file"]
                       /\ UNCHANGED <<notes, note_seq, files, now>>
                  ELSE /\ note_seq < DemoNoteCount + MaxNotes
                       /\ now' = timestamp
                       /\ notes' = notes \cup
                            { [id |-> note_seq + 1, title |-> title,
                               category |-> category, subject |-> subject,
                               description |-> description,
                               uploader_id |-> current_user.id,
                               upload_date |-> timestamp, downloads |-> 0,
                               tags |-> tags_list(tags), file_path |-> file_path,
                               file_name |-> file_name,
                               rating_sum |-> 0, rating_count |-> 0] }
                       /\ note_seq' = note_seq + 1
                       /\ IF copy_ok
                          THEN /\ files' = files \cup {file_path}
                               /\ ret' = [call EXCEPT !.ok = TRUE,
                                                      !.msg = "uploaded successfully"]
                          ELSE /\ files' = files
                               /\ ret' = [call EXCEPT !.msg = "Error uploading file"]
      /\ UNCHANGED <<conn, users, ratings, download_history, user_seq, download_seq,
                     current_user>>

add_note(title, category, subject, description, tags, file, timestamp, copy_ok, insert_ok) ==
  LET call == Call("add_note")
  IN  /\ IF current_user = None
         THEN /\ ret' = [call EXCEPT !.msg = "Please login first"]
              /\ UNCHANGED <<notes, note_seq, files, now>>
         ELSE IF file = NoFile
         THEN /\ ret' = [call EXCEPT !.msg = "Please upload a file"]
              /\ UNCHANGED <<notes, note_seq, files, now>>
         ELSE IF title = "" \/ category = "" \/ subject = ""
         THEN /\ ret' = [call EXCEPT !.msg = "Please fill all required fields"]
              /\ UNCHANGED <<notes, note_seq, files, now>>
         ELSE LET file_name == Basename(file)
                  file_path == UniquePath(timestamp, file_name)
              IN  IF ~copy_ok
                  THEN /\ ret' = [call EXCEPT !.msg = "Error uploading file"]
                       /\ UNCHANGED <<notes, note_seq, files, now>>
                  ELSE IF ~insert_ok
                  THEN /\ files' = files \cup {file_path}
                       /\ now' = timestamp
                       /\ ret' = [call EXCEPT !.msg = "Error uploading file"]
                       /\ UNCHANGED <<notes, note_seq>>
                  ELSE /\ note_seq < DemoNoteCount + MaxNotes
                       /\ files' = files \cup {file_path}
                       /\ now' = timestamp
                       /\ notes' = notes \cup
                            { [id |-> note_seq + 1, title |-> title,
                               category |-> category, subject |-> subject,
                               description |-> description,
                               uploader_id |-> current_user.id,
                               upload_date |-> timestamp, downloads |-> 0,
                               tags |-> tags_list(tags), file_path |-> file_path,
                               file_name |-> file_name,
                               rating_sum |-> 0, rating_count |-> 0] }
                       /\ note_seq' = note_seq + 1
                       /\ ret' = [call EXCEPT !.ok = TRUE,
                                              !.msg = "uploaded successfully"]
      /\ UNCHANGED <<conn, users, ratings, download_history, user_seq, download_seq,
                     current_user>>

(***************************************************************************)
(* download_note(note_id)                                                  *)
(***************************************************************************)
NoteById(note_id) == { n \in notes : n.id = note_id }

\* Faulty variant: the UPDATE is missing, the download is only logged.
KeepDownloads(ns, note_id) == ns

\* Faulty variant: the UPDATE has no WHERE clause.
IncrementAllDownloads(ns, note_id) ==
  { [n EXCEPT !.downloads = n.downloads + 1] : n \in ns }

\* UPDATE notes SET downloads = downloads + 1 WHERE id = ?
IncrementDownloads(ns, note_id) ==
  { IF n.id = note_id THEN [n EXCEPT !.downloads = n.downloads + 1] ELSE n : n \in ns }

\* Faulty variant: the download is logged before the note is looked up.
download_note_logged_first(note_id) ==
  LET call == Call("download_note")
      found == NoteById(note_id)
  IN  /\ IF current_user = None
         THEN /\ ret' = [call EXCEPT !.msg = "Please login first"]
              /\ UNCHANGED <<notes, download_history, download_seq>>
         ELSE /\ download_seq < MaxDownloads
              /\ notes' = IncrementDownloads(notes, note_id)
              /\ download_history' = download_history \cup
                   { [id |-> download_seq + 1, note_id |-> note_id,
                      user_id |-> current_user.id] }
              /\ download_seq' = download_seq + 1
              /\ IF found = {}
                 THEN ret' = [call EXCEPT !.msg = "Note not found"]
                 ELSE ret' = [call EXCEPT !.ok = TRUE, !.msg = "ready for download",
                                          !.file_path = (CHOOSE n \in found : TRUE).file_path]
      /\ UNCHANGED <<conn, users, ratings, note_seq, user_seq, files, current_user, now>>

download_note(note_id) ==
  LET call == Call("download_note")
      found == NoteById(note_id)
  IN  /\ IF current_user = None
         THEN /\ ret' = [call EXCEPT !.msg = "Please login first"]
              /\ UNCHANGED <<notes, download_history, download_seq>>
         ELSE IF found = {}
         THEN /\ ret' = [call EXCEPT !.msg = "Note not found"]
              /\ UNCHANGED <<notes, download_history, download_seq>>
         ELSE LET note == CHOOSE n \in found : TRUE
              IN  /\ download_seq < MaxDownloads
                  /\ notes' = IncrementDownloads(notes, note_id)
                  /\ download_history' = download_history \cup
                       { [id |-> download_seq + 1, note_id |-> note_id,
                          user_id |-> current_user.id] }
                  /\ download_seq' = download_seq + 1
                  /\ ret' = [call EXCEPT !.ok = TRUE, !.msg = "ready for download",
                                         !.file_path = note.file_path]
      /\ UNCHANGED <<conn, users, ratings, note_seq, user_seq, files, current_user, now>>

(***************************************************************************)
(* rate_note(note_id, rating, review)                                      *)
(***************************************************************************)
RECURSIVE SumRatings(_)
SumRatings(rows) ==
  IF rows = {} THEN 0
  ELSE LET r == CHOOSE x \in rows : TRUE
       IN  r.rating + SumRatings(rows \ {r})

RatingsOf(rs, note_id) == { r \in rs : r.note_id = note_id }

\* INSERT ... ON CONFLICT(note_id, user_id) DO UPDATE SET rating = ?, review = ?
UpsertRating(rs, note_id, user_id, rating, review) ==
  { r \in rs : ~(r.note_id = note_id /\ r.user_id = user_id) }
    \cup { [note_id |-> note_id, user_id |-> user_id, rating |-> rating,
            review |-> review] }

\* UPDATE notes SET rating_sum = (SELECT SUM ...), rating_count = (SELECT COUNT ...)
\* WHERE id = ?
UpdateRatingSummary(ns, rs, note_id) ==
  { IF n.id = note_id
    THEN [n EXCEPT !.rating_sum = SumRatings(RatingsOf(rs, note_id)),
                   !.rating_count = Cardinality(RatingsOf(rs, note_id))]
    ELSE n : n \in ns }

\* Faulty variant: the session is not checked before the upsert.
rate_note_unguarded(note_id, rating, review) ==
  LET call == Call("rate_note")
  IN  /\ IF rating < 1 * Star \/ rating > 5 * Star
         THEN /\ ret' = [call EXCEPT !.msg = "Rating must be between 1 and 5"]
              /\ UNCHANGED <<notes, ratings>>
         ELSE LET upserted == UpsertRating(ratings, note_id, current_user.id,
                                           rating, review)
              IN  /\ Cardinality(upserted) <= MaxRatings
                  /\ ratings' = upserted
                  /\ notes' = UpdateRatingSummary(notes, upserted, note_id)
                  /\ ret' = [call EXCEPT !.ok = TRUE,
                                         !.msg = "Rating submitted successfully"]
      /\ UNCHANGED <<conn, users, download_history, note_seq, user_seq, download_seq,
                     files, current_user, now>>

rate_note(note_id, rating, review) ==
  LET call == Call("rate_note")
  IN  /\ IF current_user = None
         THEN /\ ret' = [call EXCEPT !.msg = "Please login first"]
              /\ UNCHANGED <<notes, ratings>>
         ELSE IF rating < 1 * Star \/ rating > 5 * Star
         THEN /\ ret' = [call EXCEPT !.msg = "Rating must be between 1 and 5"]
              /\ UNCHANGED <<notes, ratings>>
         ELSE LET upserted == UpsertRating(ratings, note_id, current_user.id,
                                           rating, review)
              IN  /\ Cardinality(upserted) <= MaxRatings
                  /\ ratings' = upserted
                  /\ notes' = UpdateRatingSummary(notes, upserted, note_id)
                  /\ ret' = [call EXCEPT !.ok = TRUE,
                                         !.msg = "Rating submitted successfully"]
      /\ UNCHANGED <<conn, users, download_history, note_seq, user_seq, download_seq,
                     files, current_user, now>>

(***************************************************************************)
(* delete_note(note_id)                                                    *)
(*   remove_ok: os.remove raised nothing (an OSError is swallowed by the   *)
(*              bare except and the file stays)                            *)
(***************************************************************************)
\* Faulty variant: teachers are let through with the admins.
MayDeleteAsStaff(note, user) ==
  note.uploader_id = user.id \/ user.role \in {"admin", "teacher"}

\* not (note['uploader_id'] != current_user['id'] and current_user['role'] != 'admin')
MayDelete(note, user) == note.uploader_id = user.id \/ user.role = "admin"

\* Faulty variant: the rows of the note are left behind.
KeepRowsOf(rows, note_id) == rows

\* DELETE FROM download_history WHERE note_id = ?; DELETE FROM ratings WHERE note_id = ?
DeleteRowsOf(rows, note_id) == { r \in rows : r.note_id # note_id }

delete_note(note_id, remove_ok) ==
  LET call == Call("delete_note")
      found == NoteById(note_id)
  IN  /\ IF current_user = None
         THEN /\ ret' = [call EXCEPT !.msg = "Please login first"]
              /\ UNCHANGED <<notes, ratings, download_history, files>>
         ELSE IF found = {}
         THEN /\ ret' = [call EXCEPT !.msg = "Note not found"]
              /\ UNCHANGED <<notes, ratings, download_history, files>>
         ELSE LET note == CHOOSE n \in found : TRUE
              IN  IF ~MayDelete(note, current_user)
                  THEN /\ ret' = [call EXCEPT !.msg = "You don't have permission to delete this note"]
                       /\ UNCHANGED <<notes, ratings, download_history, files>>
                  ELSE /\ files' = IF remove_ok THEN files \ {note.file_path} ELSE files
                       /\ notes' = { n \in notes : n.id # note_id }
                       /\ download_history' = DeleteRowsOf(download_history, note_id)
                       /\ ratings' = DeleteRowsOf(ratings, note_id)
                       /\ ret' = [call EXCEPT !.ok = TRUE,
                                              !.msg = "Note deleted successfully"]
      /\ UNCHANGED <<conn, users, note_seq, user_seq, download_seq, current_user, now>>

(***************************************************************************)
(* search_notes(query, category, sort_by)                                  *)
(***************************************************************************)
\* LIKE compares the ASCII letters without regard to case: the lower-case
\* letter of each upper-case one
ascii_lowercase ==
  [A |-> "a", B |-> "b", C |-> "c", D |-> "d", E |-> "e", F |-> "f", G |-> "g",
   H |-> "h", I |-> "i", J |-> "j", K |-> "k", L |-> "l", M |-> "m", N |-> "n",
   O |-> "o", P |-> "p", Q |-> "q", R |-> "r", S |-> "s", T |-> "t", U |-> "u",
   V |-> "v", W |-> "w", X |-> "x", Y |-> "y", Z |-> "z"]

Fold(char) ==
  IF char \in DOMAIN ascii_lowercase THEN ascii_lowercase[char] ELSE char

\* SQLite's LIKE: in the pattern % stands for any run of characters and _ for
\* any one character; there is no ESCAPE clause.  LikeFrom matches the
\* pattern against the text from position i to its end.
RECURSIVE LikeFrom(_, _, _)
LikeFrom(pattern, text, i) ==
  IF pattern = "" THEN i = Len(text) + 1
  ELSE IF Head(pattern) = "%"
  THEN \E j \in i..(Len(text) + 1) : LikeFrom(Tail(pattern), text, j)
  ELSE /\ i <= Len(text)
       /\ \/ Head(pattern) = "_"
          \/ Head(pattern) = SubSeq(text, i, i)
          \/ Fold(Head(pattern)) = Fold(SubSeq(text, i, i))
       /\ LikeFrom(Tail(pattern), text, i + 1)

LikeMatch(pattern, text) == LikeFrom(pattern, text, 1)

\* search_term = f"%{query}%"
search_term(query) == "%" \o query \o "%"

\* json.dumps of a list of str (plain ASCII, no quote or backslash in a tag)
RECURSIVE json_items(_)
json_items(tags) ==
  IF tags = <<>> THEN ""
  ELSE "\"" \o Head(tags) \o "\""
       \o (IF Len(tags) > 1 THEN ", " \o json_items(Tail(tags)) ELSE "")

json_dumps(tags) == "[" \o json_items(tags) \o "]"

\* n.title LIKE ? OR n.description LIKE ? OR n.subject LIKE ? OR n.tags LIKE ?
TextMatches(n, query) ==
  \/ LikeMatch(search_term(query), n.title)
  \/ LikeMatch(search_term(query), n.description)
  \/ LikeMatch(search_term(query), n.subject)
  \/ LikeMatch(search_term(query), json_dumps(n.tags))

\* Faulty variant: the category test is joined with OR.
RowMatchesEither(n, query, category) ==
  (query # "" /\ TextMatches(n, query)) \/ (category # "All" /\ n.category = category)

\* WHERE 1=1 [AND (... LIKE ...)] [AND n.category = ?]
RowMatches(n, query, category) ==
  /\ query # "" => TextMatches(n, query)
  /\ category # "All" => n.category = category

\* CASE WHEN n.rating_count > 0 THEN CAST(n.rating_sum AS FLOAT) / n.rating_count
\* ELSE 0 END, in stars, as the fraction num / den
avg_rating(n) ==
  IF n.rating_count > 0 THEN [num |-> n.rating_sum, den |-> n.rating_count * Star]
  ELSE [num |-> 0, den |-> 1]

\* round(avg_rating, 1), in tenths; a tie goes to the even tenth
round(avg) ==
  LET tenths == (10 * avg.num) \div avg.den
      rest == (10 * avg.num) % avg.den
  IN  IF 2 * rest > avg.den \/ (2 * rest = avg.den /\ tenths % 2 = 1)
      THEN tenths + 1
      ELSE tenths

\* a.key > b.key / a.key = b.key for the column of the ORDER BY
KeyGreater(a, b, sort_by) ==
  IF sort_by = "recent" THEN a.upload_date > b.upload_date
  ELSE IF sort_by = "popular" THEN a.downloads > b.downloads
  ELSE IF sort_by = "rating"
  THEN avg_rating(a).num * avg_rating(b).den > avg_rating(b).num * avg_rating(a).den
  ELSE FALSE

KeyEqual(a, b, sort_by) == ~KeyGreater(a, b, sort_by) /\ ~KeyGreater(b, a, sort_by)

\* Faulty variant: ORDER BY ... ASC.
ComesBeforeAscending(a, b, sort_by) ==
  \/ KeyGreater(b, a, sort_by)
  \/ KeyEqual(a, b, sort_by) /\ a.id < b.id

\* ORDER BY ... DESC; notes is scanned in rowid order and the sorter keeps the
\* rows of equal key in the order of the scan
ComesBefore(a, b, sort_by) ==
  \/ KeyGreater(a, b, sort_by)
  \/ KeyEqual(a, b, sort_by) /\ a.id < b.id

\* results.append({...}) for a row of notes n JOIN users u
NoteView(n, u) ==
  [id |-> n.id, title |-> n.title, category |-> n.category, subject |-> n.subject,
   description |-> n.description, uploader_name |-> u.username,
   upload_date |-> n.upload_date, downloads |-> n.downloads, tags |-> n.tags,
   file_path |-> n.file_path, file_name |-> n.file_name,
   avg_rating |-> round(avg_rating(n))]

search_notes(query, category, sort_by) ==
  LET rows == { n \in notes : /\ \E u \in users : u.id = n.uploader_id
                               /\ RowMatches(n, query, category) }
      Place(n) == 1 + Cardinality({ m \in rows : ComesBefore(m, n, sort_by) })
  IN  [i \in 1..Cardinality(rows) |->
         LET n == CHOOSE r \in rows : Place(r) = i
         IN  NoteView(n, CHOOSE u \in users : u.id = n.uploader_id)]

(***************************************************************************)
(* search_and_display(query, category, sort_by)                            *)
(***************************************************************************)
search_and_display(query, category, sort_by) ==
  /\ ret' = [Call("search_notes") EXCEPT !.args = <<query, category, sort_by>>,
                                         !.rows = search_notes(query, category, sort_by)]
  /\ UNCHANGED <<conn, tables, files, current_user, now>>

(***************************************************************************)
(* rate_note and download_note statement by statement, as another call     *)
(* (a search, a logout) or the end of the process finds them.              *)
(*   conn.pc: the statement the call is to execute next                    *)
(*   conn.notes, conn.ratings, conn.download_history, conn.download_seq:   *)
(*     the tables as the connection reads them once it has written         *)
(*   raised: the statement raised (sqlite3.Error)                          *)
(* A second writer waits on the database lock: one call writes at a time.  *)
(***************************************************************************)
\* Faulty variant: the connection is in autocommit mode, a statement is in the
\* database file as soon as it is executed.
Autocommit(committed, written) == written

\* sqlite3.connect with the default isolation_level: INSERT and UPDATE open a
\* transaction, and the database file the other connections read keeps the
\* committed table until conn.commit().
Pending(committed, written) == committed

\* conn.close() without a commit, or the connection dropped by an exception
\* that leaves the call: the open transaction is rolled back.
Rollback(op, msg) ==
  /\ conn' = NoConn
  /\ ret' = [Call(op) EXCEPT !.msg = msg]
  /\ UNCHANGED <<tables, files, current_user, now>>

rate_note_begin(note_id, rating) ==
  /\ conn = NoConn
  /\ IF current_user = None
     THEN /\ ret' = [Call("rate_note") EXCEPT !.msg = "Please login first"]
          /\ conn' = conn
     ELSE IF rating < 1 * Star \/ rating > 5 * Star
     THEN /\ ret' = [Call("rate_note") EXCEPT !.msg = "Rating must be between 1 and 5"]
          /\ conn' = conn
     ELSE /\ conn' = [NoConn EXCEPT !.op = "rate_note", !.pc = "upsert",
                                    !.note_id = note_id, !.rating = rating]
          /\ ret' = ret
  /\ UNCHANGED <<tables, files, current_user, now>>

\* INSERT INTO ratings ... ON CONFLICT DO UPDATE, with self.current_user['id']
rate_note_upsert(raised) ==
  /\ conn.op = "rate_note"
  /\ conn.pc = "upsert"
  /\ IF raised \/ current_user = None
     THEN Rollback("rate_note", "Error submitting rating")
     ELSE LET upserted == UpsertRating(ratings, conn.note_id, current_user.id,
                                       conn.rating, "")
          IN  /\ Cardinality(upserted) <= MaxRatings
              /\ conn' = [conn EXCEPT !.pc = "summary", !.ratings = upserted,
                                      !.notes = notes,
                                      !.download_history = download_history,
                                      !.download_seq = download_seq]
              /\ ratings' = Pending(ratings, upserted)
              /\ UNCHANGED <<users, notes, download_history, note_seq, user_seq,
                             download_seq, files, current_user, now, ret>>

\* UPDATE notes SET rating_sum = ..., rating_count = ... WHERE id = ?
rate_note_update(raised) ==
  /\ conn.op = "rate_note"
  /\ conn.pc = "summary"
  /\ IF raised
     THEN Rollback("rate_note", "Error submitting rating")
     ELSE LET updated == UpdateRatingSummary(conn.notes, conn.ratings, conn.note_id)
          IN  /\ conn' = [conn EXCEPT !.pc = "commit", !.notes = updated]
              /\ notes' = Pending(notes, updated)
              /\ UNCHANGED <<users, ratings, download_history, note_seq, user_seq,
                             download_seq, files, current_user, now, ret>>

\* conn.commit(); conn.close(); return True, ...
rate_note_commit(raised) ==
  /\ conn.op = "rate_note"
  /\ conn.pc = "commit"
  /\ IF raised
     THEN Rollback("rate_note", "Error submitting rating")
     ELSE /\ ratings' = conn.ratings
          /\ notes' = conn.notes
          /\ conn' = NoConn
          /\ ret' = [Call("rate_note") EXCEPT !.ok = TRUE,
                                              !.msg = "Rating submitted successfully"]
          /\ UNCHANGED <<users, download_history, note_seq, user_seq, download_seq,
                         files, current_user, now>>

\* the session check and SELECT * FROM notes WHERE id = ?
download_note_select(note_id) ==
  LET call == Call("download_note")
      found == NoteById(note_id)
  IN  /\ conn = NoConn
      /\ IF current_user = None
         THEN /\ ret' = [call EXCEPT !.msg = "Please login first"]
              /\ conn' = conn
         ELSE IF found = {}
         THEN /\ ret' = [call EXCEPT !.msg = "Note not found"]
              /\ conn' = conn
         ELSE /\ conn' = [NoConn EXCEPT !.op = "download_note", !.pc = "increment",
                                        !.note_id = note_id,
                                        !.file_path = (CHOOSE n \in found : TRUE).file_path]
              /\ ret' = ret
      /\ UNCHANGED <<tables, files, current_user, now>>

\* UPDATE notes SET downloads = downloads + 1 WHERE id = ?
download_note_update(raised) ==
  /\ conn.op = "download_note"
  /\ conn.pc = "increment"
  /\ IF raised
     THEN Rollback("download_note", "")
     ELSE LET updated == IncrementDownloads(notes, conn.note_id)
          IN  /\ conn' = [conn EXCEPT !.pc = "log", !.notes = updated,
                                      !.ratings = ratings,
                                      !.download_history = download_history,
                                      !.download_seq = download_seq]
              /\ notes' = Pending(notes, updated)
              /\ UNCHANGED <<users, ratings, download_history, note_seq, user_seq,
                             download_seq, files, current_user, now, ret>>

\* INSERT INTO download_history (note_id, user_id), with self.current_user['id']
download_note_insert(raised) ==
  /\ conn.op = "download_note"
  /\ conn.pc = "log"
  /\ IF raised \/ current_user = None
     THEN Rollback("download_note", "")
     ELSE LET logged == conn.download_history \cup
                          { [id |-> conn.download_seq + 1, note_id |-> conn.note_id,
                             user_id |-> current_user.id] }
          IN  /\ conn.download_seq < MaxDownloads
              /\ conn' = [conn EXCEPT !.pc = "commit", !.download_history = logged,
                                      !.download_seq = conn.download_seq + 1]
              /\ download_history' = Pending(download_history, logged)
              /\ download_seq' = Pending(download_seq, conn.download_seq + 1)
              /\ UNCHANGED <<users, notes, ratings, note_seq, user_seq, files,
                             current_user, now, ret>>

\* conn.commit(); conn.close(); return True, ..., note['file_path']
download_note_commit(raised) ==
  /\ conn.op = "download_note"
  /\ conn.pc = "commit"
  /\ IF raised
     THEN Rollback("download_note", "")
     ELSE /\ notes' = conn.notes
          /\ download_history' = conn.download_history
          /\ download_seq' = conn.download_seq
          /\ conn' = NoConn
          /\ ret' = [Call("download_note") EXCEPT !.ok = TRUE,
                                                  !.msg = "ready for download",
                                                  !.file_path = conn.file_path]
          /\ UNCHANGED <<users, ratings, note_seq, user_seq, files, current_user, now>>

\* Faulty variant: no rollback journal, the statements executed so far stay in
\* the database file when the process ends.
crash_without_journal ==
  /\ conn' = NoConn
  /\ current_user' = None
  /\ ret' = [Call("crash") EXCEPT !.args = <<conn.op, conn.pc>>]
  /\ IF conn.pc \in {"summary", "log", "commit"}
     THEN /\ notes' = conn.notes
          /\ ratings' = conn.ratings
          /\ download_history' = conn.download_history
          /\ download_seq' = conn.download_seq
          /\ UNCHANGED <<users, note_seq, user_seq>>
     ELSE UNCHANGED tables
  /\ UNCHANGED <<files, now>>

\* The process ends at any statement and is started again: the database file
\* holds what was committed, __init__ finds the users table filled and sets
\* current_user to None.  ret.args: the call and the statement it was about to
\* execute.
crash ==
  /\ conn' = NoConn
  /\ current_user' = None
  /\ ret' = [Call("crash") EXCEPT !.args = <<conn.op, conn.pc>>]
  /\ UNCHANGED <<tables, files, now>>

(***************************************************************************)
(* Callers.  Each specification is the program driven by one group of UI   *)
(* handlers.                                                               *)
(***************************************************************************)
Login == \E l \in Logins : authenticate(l[1], l[2])

Upload ==
  \E title \in TitleInputs, category \in CategoryInputs, subject \in SubjectInputs,
     file \in FileInputs :
    add_note(title, category, subject, "", "", file, now, TRUE, TRUE)

\* upload_note with the tags text, delay seconds after the clock was last read,
\* the copy and the insert each ending as one of the outcomes
UploadAt(tag_inputs, delays, outcomes) ==
  \E title \in TitleInputs, category \in CategoryInputs, subject \in SubjectInputs,
     file \in FileInputs, tags \in tag_inputs, delay \in delays,
     copy_ok \in outcomes, insert_ok \in outcomes :
    /\ now + delay <= MaxDelay
    /\ add_note(title, category, subject, "", tags, file, now + delay, copy_ok, insert_ok)

Search(queries, categories, sorts) ==
  \E query \in queries, category \in categories, sort_by \in sorts :
    search_and_display(query, category, sort_by)

Rate(ids, values) == \E note_id \in ids, rating \in values : rate_note(note_id, rating, "")

Download(ids) == \E note_id \in ids : download_note(note_id)

Delete(ids, outcomes) ==
  \E note_id \in ids, remove_ok \in outcomes : delete_note(note_id, remove_ok)

\* login, rate_note_by_id, download_note_by_id, delete_note_by_id
Next ==
  \/ Login
  \/ Rate(NoteIdInputs, StarInputs)
  \/ Download(NoteIdInputs)
  \/ Delete(NoteIdInputs, BOOLEAN)

Spec == Init /\ [][Next]_vars

\* login, upload_note, rate_note_by_id, delete_note_by_id
NextRate ==
  \/ Login
  \/ Upload
  \/ Rate(RatedNoteIds, RatingInputs)
  \/ Delete(RatedNoteIds, {TRUE})

SpecRate == Init /\ [][NextRate]_vars

\* login, logout, register
NextAuth ==
  \/ \E username \in Usernames, password \in Passwords : authenticate(username, password)
  \/ logout
  \/ \E username \in Usernames, password \in Passwords, email \in Emails :
       register_user(username, password, email)

SpecAuth == Init /\ [][NextAuth]_vars

\* login, logout, upload_note, rate_note_by_id, download_note_by_id,
\* delete_note_by_id: the handlers that need a session, with and without one
NextGuest ==
  \/ authenticate("student1", "pass123")
  \/ logout
  \/ Upload
  \/ Rate(RatedNoteIds, StarInputs)
  \/ Download(RatedNoteIds)
  \/ Delete(RatedNoteIds, {TRUE})

SpecGuest == Init /\ [][NextGuest]_vars

\* login, upload_note, search_and_display
NextSearch ==
  \/ authenticate("student1", "pass123")
  \/ UploadAt(TagsInputs, {0, 1}, {TRUE})
  \/ Search(QueryInputs, CategoryFilters, {"recent"})
  \/ Search({"calc"}, {"All"}, SortInputs)

SpecSearch == Init /\ [][NextSearch]_vars

\* login, upload_note with its failures, delete_note_by_id
NextUpload ==
  \/ authenticate("student1", "pass123")
  \/ UploadAt(TagsInputs, {0, 1}, BOOLEAN)
  \/ Delete(RatedNoteIds, BOOLEAN)

SpecUpload == Init /\ [][NextUpload]_vars

\* login, upload_note, download_note_by_id, rate_note_by_id, delete_note_by_id
NextCount ==
  \/ authenticate("student1", "pass123")
  \/ Upload
  \/ Download(RatedNoteIds)
  \/ Rate(RatedNoteIds, {5 * Star})
  \/ Delete(RatedNoteIds, {TRUE})

SpecCount == Init /\ [][NextCount]_vars

\* No connection holds a write that is not committed: a call that writes
\* through a connection of its own gets the database lock at once.
Unlocked == conn.pc \in {"", "upsert", "increment"}

\* login, logout, download_note_by_id statement by statement, and a
\* delete_note_by_id that runs between two of its statements
NextRace ==
  \/ authenticate("admin", "admin123")
  \/ logout
  \/ \E note_id \in NoteIdInputs : download_note_select(note_id)
  \/ \E raised \in BOOLEAN : download_note_update(raised)
  \/ \E raised \in BOOLEAN : download_note_insert(raised)
  \/ \E raised \in BOOLEAN : download_note_commit(raised)
  \/ Unlocked /\ Delete(NoteIdInputs, BOOLEAN)

SpecRace == Init /\ [][NextRace]_vars

\* login, upload_note, rate_note_by_id with the numbers the rating field can
\* send
NextSlider ==
  \/ Login
  \/ Upload
  \/ Rate(RatedNoteIds, SliderInputs)

SpecSlider == Init /\ [][NextSlider]_vars

\* login, logout, rate_note_by_id and download_note_by_id statement by
\* statement, a search of the whole catalog between any two statements, the
\* end of the process at any statement
NextTxn ==
  \/ authenticate("student1", "pass123")
  \/ logout
  \/ \E note_id \in RatedNoteIds, rating \in StarInputs : rate_note_begin(note_id, rating)
  \/ \E raised \in BOOLEAN : rate_note_upsert(raised)
  \/ \E raised \in BOOLEAN : rate_note_update(raised)
  \/ \E raised \in BOOLEAN : rate_note_commit(raised)
  \/ \E note_id \in RatedNoteIds : download_note_select(note_id)
  \/ \E raised \in BOOLEAN : download_note_update(raised)
  \/ \E raised \in BOOLEAN : download_note_insert(raised)
  \/ \E raised \in BOOLEAN : download_note_commit(raised)
  \/ Search({""}, {"All"}, {"rating"})
  \/ crash

SpecTxn == Init /\ [][NextTxn]_vars

\* login, upload_note, rate_note_by_id, download_note_by_id, search_and_display
\* of the whole catalog
NextRank ==
  \/ authenticate("student1", "pass123")
  \/ Upload
  \/ Rate(RatedNoteIds, {2 * Star, 5 * Star})
  \/ Download({1})
  \/ Search({""}, {"All"}, SortInputs)

SpecRank == Init /\ [][NextRank]_vars
(***************************************************************************)
(* Properties.                                                             *)
(***************************************************************************)
NotePresent(note_id) == NoteById(note_id) # {}

RatingRow(note_id, user_id) ==
  { r \in ratings : r.note_id = note_id /\ r.user_id = user_id }

\* C1: after every rate() call (stated here for the calls that returned
\* success, whatever calls preceded them), every note present in the catalog
\* has rating_sum equal to the sum of the values of its Rating rows and
\* rating_count equal to the number of those rows.
C1_RecomputeInvariant ==
  (ret.op = "rate_note" /\ ret.ok) =>
    \A n \in notes :
      /\ n.rating_sum = SumRatings(RatingsOf(ratings, n.id))
      /\ n.rating_count = Cardinality(RatingsOf(ratings, n.id))

\* The values of one to five whole stars.
WholeStars == { stars * Star : stars \in 1..5 }

\* C2: when the user of the session already has a Rating row for a note and
\* rates that note again with a valid value, the pair still has one row, the
\* note's rating_count does not increase and its rating_sum changes by
\* exactly newValue - oldValue.
C2_RerateKeepsCount ==
  [][ \A note_id \in NoteIdInputs, rating \in WholeStars :
        ( /\ rate_note(note_id, rating, "")
          /\ current_user # None
          /\ NotePresent(note_id)
          /\ RatingRow(note_id, current_user.id) # {} )
        => LET old == CHOOSE r \in RatingRow(note_id, current_user.id) : TRUE
               before == CHOOSE n \in notes : n.id = note_id
           IN  /\ Cardinality({ r \in ratings' : r.note_id = note_id
                                                 /\ r.user_id = current_user.id }) = 1
               /\ \A n \in notes' :
                    n.id = note_id =>
                      /\ n.rating_count <= before.rating_count
                      /\ n.rating_sum = before.rating_sum + rating - old.rating
    ]_vars

\* C5: a rate call by a session with a value in 1..5 on a note id that is
\* absent from the catalog fails with the not-found error and creates no
\* Rating row.
C5_RateAbsentNoteFails ==
  [][ \A note_id \in NoteIdInputs, rating \in WholeStars :
        ( /\ rate_note(note_id, rating, "")
          /\ current_user # None
          /\ ~NotePresent(note_id) )
        => /\ ~ret'.ok
           /\ ret'.msg = "Note not found"
           /\ ratings' = ratings
    ]_vars
RowsOfOtherNotes(rows, note_id) == { r \in rows : r.note_id # note_id }

\* C3: a successful download of an existing note by the user of the session
\* leaves the note's download counter exactly one greater, adds exactly one
\* download_history row, for that note and that user, and changes neither the
\* other notes nor the rows already there.
C3_DownloadCountsOnce ==
  [][ \A note_id \in NoteIdInputs :
        (download_note(note_id) /\ ret'.ok)
        => /\ current_user # None
           /\ NotePresent(note_id)
           /\ \A n \in notes :
                IF n.id = note_id
                THEN [n EXCEPT !.downloads = n.downloads + 1] \in notes'
                ELSE n \in notes'
           /\ Cardinality(notes') = Cardinality(notes)
           /\ download_history \subseteq download_history'
           /\ Cardinality(download_history' \ download_history) = 1
           /\ \A d \in download_history' \ download_history :
                d.note_id = note_id /\ d.user_id = current_user.id
    ]_vars

C3_Witness ==
  /\ ret.op = "download_note"
  /\ ret.ok
  /\ \E d \in download_history, n \in notes :
       /\ d.note_id = n.id
       /\ d.user_id = current_user.id
       /\ n.downloads = 1
       /\ ret.file_path = n.file_path
  /\ \E m \in notes : m.downloads = 0 /\ RatingsOf(ratings, m.id) # {}

\* C4: a delete of an existing note by its uploader or by an admin session
\* succeeds; afterwards the note row is gone and no ratings row and no
\* download_history row with that note id remains, and the rows of the other
\* notes are untouched.
C4_DeleteCascades ==
  [][ \A note_id \in NoteIdInputs, remove_ok \in BOOLEAN :
        ( /\ delete_note(note_id, remove_ok)
          /\ current_user # None
          /\ \E n \in notes :
               /\ n.id = note_id
               /\ (n.uploader_id = current_user.id \/ current_user.role = "admin") )
        => /\ ret'.ok
           /\ \A n \in notes' : n.id # note_id
           /\ \A r \in ratings' : r.note_id # note_id
           /\ \A d \in download_history' : d.note_id # note_id
           /\ notes' = { n \in notes : n.id # note_id }
           /\ ratings' = RowsOfOtherNotes(ratings, note_id)
           /\ download_history' = RowsOfOtherNotes(download_history, note_id)
    ]_vars

\* A delete has succeeded on a note that had a download row (the sequence is
\* ahead of the rows left), and another note keeps its rating.
C4_Witness ==
  /\ ret.op = "delete_note"
  /\ ret.ok
  /\ Cardinality(notes) < DemoNoteCount
  /\ download_seq > Cardinality(download_history)
  /\ \E r \in ratings : NotePresent(r.note_id)

\* C6: a download by a session on a note id that is absent from the catalog
\* (never created, or deleted) fails with the not-found error, returns no
\* file path, increments no counter and appends no download_history row.
C6_DownloadAbsentNoteFails ==
  [][ \A note_id \in NoteIdInputs :
        ( /\ download_note(note_id)
          /\ current_user # None
          /\ ~NotePresent(note_id) )
        => /\ ~ret'.ok
           /\ ret'.msg = "Note not found"
           /\ ret'.file_path = NoPath
           /\ UNCHANGED <<notes, download_history, download_seq>>
    ]_vars

\* The download of a note that was deleted was refused.
C6_Witness ==
  /\ ret.op = "download_note"
  /\ ret.msg = "Note not found"
  /\ current_user # None
  /\ Cardinality(notes) < DemoNoteCount
  /\ download_history = {}

\* C7: a delete of an existing note by a session whose user is not the
\* uploader and whose role is not admin fails with the permission error and
\* changes nothing: the note, its file, its ratings and its download_history
\* rows are as before.
C7_DeleteNeedsOwnerOrAdmin ==
  [][ \A note_id \in NoteIdInputs, remove_ok \in BOOLEAN :
        ( /\ delete_note(note_id, remove_ok)
          /\ current_user # None
          /\ \E n \in notes :
               /\ n.id = note_id
               /\ n.uploader_id # current_user.id
               /\ current_user.role # "admin" )
        => /\ ~ret'.ok
           /\ ret'.msg = "You don't have permission to delete this note"
           /\ UNCHANGED <<notes, ratings, download_history, files>>
    ]_vars

\* A teacher was refused the delete of a note of another user that has a
\* rating, a download row and its file.
C7_Witness ==
  /\ ret.op = "delete_note"
  /\ ret.msg = "You don't have permission to delete this note"
  /\ current_user.role = "teacher"
  /\ \E n \in notes :
       /\ n.id \in NoteIdInputs
       /\ n.uploader_id # current_user.id
       /\ n.file_path \in files
       /\ RatingsOf(ratings, n.id) # {}
       /\ \E d \in download_history : d.note_id = n.id
  /\ Cardinality(notes) = DemoNoteCount
UniqueUsernames ==
  \A u1 \in users, u2 \in users : u1.username = u2.username => u1 = u2

\* C8 as claimed: register with a username that is already present fails with
\* the conflict error whatever the password and email, and leaves the user set
\* unchanged; no two users share a username.
C8_TakenNameAlwaysConflict ==
  /\ []UniqueUsernames
  /\ [][ \A username \in Usernames, password \in Passwords, email \in Emails :
           (register_user(username, password, email) /\ UserByName(username) # {})
           => /\ ~ret'.ok
              /\ ret'.msg = "Username already exists"
              /\ users' = users
       ]_vars

\* C8 amended: register with a username that is already present fails and
\* leaves the user set unchanged, with the conflict error when the password has
\* at least 6 characters and with the password validation error when it has
\* fewer; no two users share a username.
C8_TakenNameRejected ==
  /\ []UniqueUsernames
  /\ [][ \A username \in Usernames, password \in Passwords, email \in Emails :
           (register_user(username, password, email) /\ UserByName(username) # {})
           => /\ ~ret'.ok
              /\ ret'.msg = IF Len(password) >= 6
                            THEN "Username already exists"
                            ELSE "Password must be at least 6 characters"
              /\ users' = users
              /\ user_seq' = user_seq
       ]_vars

\* A register with a taken username and a long enough password was refused
\* while a registered user exists beside the demo users.
C8_Witness ==
  /\ ret.op = "register_user"
  /\ ret.msg = "Username already exists"
  /\ Cardinality(users) > DemoUserCount

\* C9: register fails with a validation error and creates no user when the
\* username has fewer than 3 or the password fewer than 6 characters;
\* otherwise, when the username is free, it creates exactly one new user, with
\* role student; it never changes the current session.
C9_RegisterValidates ==
  [][ \A username \in Usernames, password \in Passwords, email \in Emails :
        register_user(username, password, email)
        => /\ current_user' = current_user
           /\ IF Len(username) < 3 \/ Len(password) < 6
              THEN /\ ~ret'.ok
                   /\ ret'.msg \in {"Username must be at least 3 characters",
                                    "Password must be at least 6 characters"}
                   /\ users' = users
              ELSE UserByName(username) = {}
                   => /\ ret'.ok
                      /\ users \subseteq users'
                      /\ Cardinality(users' \ users) = 1
                      /\ \A u \in users' \ users :
                           /\ u.username = username
                           /\ u.role = "student"
                           /\ u.password = _hash_password(password)
                           /\ \A v \in users : v.id # u.id
    ]_vars

\* A user was registered with a password of exactly 6 characters while
\* another user was logged in.
C9_Witness ==
  /\ ret.op = "register_user"
  /\ ret.ok
  /\ current_user # None
  /\ \E u \in users :
       /\ u.id > DemoUserCount
       /\ u.role = "student"
       /\ u.password = _hash_password("secret")

\* C10: the session is empty until an authenticate succeeds and after a
\* logout, and otherwise holds the id, username and role of the user of the
\* last successful authenticate; authenticate succeeds exactly when the
\* username exists and the digest of the password is the stored one; a failed
\* authenticate, and every other call, leaves the session as it was.
C10_SessionFollowsLogin ==
  /\ [](ret.op = "init" => current_user = None)
  /\ [][ /\ logout => current_user' = None
         /\ \A username \in Usernames, password \in Passwords :
              authenticate(username, password)
              => LET match == { u \in users : /\ u.username = username
                                              /\ u.password = _hash_password(password) }
                 IN  /\ ret'.ok <=> match # {}
                     /\ match # {} =>
                          \E u \in match :
                            current_user' = [id |-> u.id, username |-> u.username,
                                             role |-> u.role]
                     /\ match = {} => current_user' = current_user
         /\ current_user' # current_user
              => \/ ret'.op = "logout"
                 \/ ret'.op = "authenticate" /\ ret'.ok
     ]_vars

\* A failed authenticate has left the session of a registered user in place.
C10_Witness ==
  /\ ret.op = "authenticate"
  /\ ~ret.ok
  /\ current_user # None
  /\ current_user.id > DemoUserCount

\* The call was refused for want of a session and wrote nothing.
C11_Refused ==
  /\ ~ret'.ok
  /\ ret'.msg = "Please login first"
  /\ ret'.file_path = NoPath
  /\ UNCHANGED <<users, notes, ratings, download_history, files,
                 note_seq, user_seq, download_seq, current_user>>

\* C11: while no session is active (before the first login or after a
\* logout), every add_note, rate_note, download_note and delete_note call
\* fails with the login error and leaves users, notes, ratings,
\* download_history and the stored files unchanged, whatever its arguments,
\* ids of existing notes included.
C11_NoSessionNoChange ==
  [][ current_user = None =>
        /\ \A title \in TitleInputs, category \in CategoryInputs,
              subject \in SubjectInputs, file \in FileInputs,
              copy_ok \in BOOLEAN, insert_ok \in BOOLEAN :
              add_note(title, category, subject, "", "", file, now, copy_ok, insert_ok)
              => C11_Refused
        /\ \A note_id \in NoteIdInputs, rating \in RatingInputs :
              rate_note(note_id, rating, "") => C11_Refused
        /\ \A note_id \in NoteIdInputs :
              download_note(note_id) => C11_Refused
        /\ \A note_id \in NoteIdInputs, remove_ok \in BOOLEAN :
              delete_note(note_id, remove_ok) => C11_Refused
    ]_vars

\* After a logout a valid rating of an existing note was refused, in a
\* catalog that holds an uploaded note, a rating and a download row.
C11_Witness ==
  /\ current_user = None
  /\ ret.op = "rate_note"
  /\ ret.msg = "Please login first"
  /\ note_seq > DemoNoteCount
  /\ \E r \in ratings : NotePresent(r.note_id)
  /\ download_history # {}

\* The notes a result holds.
IdsOf(rows) == { rows[i].id : i \in DOMAIN rows }

\* C12: in every reachable state search_notes("", "All", "recent") returns
\* every note of the catalog exactly once, each with its own upload_date, in
\* an order in which upload_date never increases.
C12_SearchAllRecent ==
  LET rows == search_notes("", "All", "recent")
  IN  /\ Len(rows) = Cardinality(notes)
      /\ IdsOf(rows) = { n.id : n \in notes }
      /\ \A i \in DOMAIN rows :
           \E n \in notes : n.id = rows[i].id /\ n.upload_date = rows[i].upload_date
      /\ \A i \in DOMAIN rows, j \in DOMAIN rows :
           i < j => rows[i].upload_date >= rows[j].upload_date

\* The whole catalog was searched after an upload, and the uploaded note,
\* being the latest, came first, before the demo notes.
C12_Witness ==
  /\ ret.op = "search_notes"
  /\ ret.args = <<"", "All", "recent">>
  /\ Len(ret.rows) = DemoNoteCount + 1
  /\ ret.rows[1].id > DemoNoteCount
  /\ ret.rows[1].upload_date > ret.rows[2].upload_date

\* C13: for every text, category and sort key, on the same state, the notes
\* returned by search_notes(text, category, sort_by) are among the notes
\* returned by search_notes("", category, sort_by).
C13_FilterNarrows ==
  \A query \in QueryInputs, category \in CategoryFilters, sort_by \in SortInputs :
    LET filtered == search_notes(query, category, sort_by)
        unfiltered == search_notes("", category, sort_by)
    IN  /\ IdsOf(filtered) \subseteq IdsOf(unfiltered)
        /\ \A i \in DOMAIN filtered : \E j \in DOMAIN unfiltered : filtered[i] = unfiltered[j]

\* A search with a text and a category returned some, not all, of the notes of
\* that category, in a catalog with an uploaded note.
C13_Witness ==
  /\ ret.op = "search_notes"
  /\ ret.args[1] # ""
  /\ ret.args[2] # "All"
  /\ ret.rows # <<>>
  /\ Len(ret.rows) < Len(search_notes("", ret.args[2], ret.args[3]))
  /\ note_seq > DemoNoteCount

\* The text with its ASCII letters in lower case.
RECURSIVE FoldText(_)
FoldText(text) == IF text = "" THEN "" ELSE Fold(Head(text)) \o FoldText(Tail(text))

\* text is a substring of field, the case of the letters apart
Contains(field, text) ==
  \E i \in 1..(Len(field) - Len(text) + 1) :
    FoldText(SubSeq(field, i, i + Len(text) - 1)) = FoldText(text)

\* C14: search_notes(text, category, sort_by) returns exactly the notes that
\* (a) when text is not empty, contain text as a case-insensitive substring of
\* the title, the description, the subject or the serialized tag list, and
\* (b) when category is not "All", have that category.  Stated of the rows a
\* search has returned.
C14_SearchReturnsMatches ==
  ret.op = "search_notes" =>
    LET query == ret.args[1]
        category == ret.args[2]
    IN  IdsOf(ret.rows) =
          { n.id : n \in { m \in notes :
              /\ query # "" =>
                   \/ Contains(m.title, query)
                   \/ Contains(m.description, query)
                   \/ Contains(m.subject, query)
                   \/ Contains(json_dumps(m.tags), query)
              /\ category # "All" => m.category = category } }

\* The average of a note, from its rating_sum and rating_count, is at least
\* that of another.
AverageAtLeast(a, b) ==
  LET sum_a == IF a.rating_count > 0 THEN a.rating_sum ELSE 0
      count_a == IF a.rating_count > 0 THEN a.rating_count ELSE 1
      sum_b == IF b.rating_count > 0 THEN b.rating_sum ELSE 0
      count_b == IF b.rating_count > 0 THEN b.rating_count ELSE 1
  IN  sum_a * count_b >= sum_b * count_a

\* C15: with sort key popular the rows a search has returned are in an order
\* in which downloads never increases; with sort key rating they are in an
\* order in which the average rating_sum / rating_count (0 when rating_count
\* = 0) never increases, and no note that has a Rating row comes after a note
\* that has none.
C15_RankedByKey ==
  ret.op = "search_notes" =>
    LET rows == ret.rows
        sort_by == ret.args[3]
        Note(view) == CHOOSE n \in notes : n.id = view.id
    IN  /\ sort_by = "popular" =>
             \A i \in DOMAIN rows, j \in DOMAIN rows :
               i < j => Note(rows[i]).downloads >= Note(rows[j]).downloads
        /\ sort_by = "rating" =>
             \A i \in DOMAIN rows, j \in DOMAIN rows :
               i < j => /\ AverageAtLeast(Note(rows[i]), Note(rows[j]))
                        /\ ~( /\ RatingsOf(ratings, rows[i].id) = {}
                              /\ RatingsOf(ratings, rows[j].id) # {} )

\* C16: add_note stores the file before it inserts the record: a call whose
\* copy fails returns an error and inserts no record, a call whose insert fails
\* after the copy leaves the stored file and no record, and a record that
\* appears in notes has its file_path among the stored files.
C16_BlobBeforeRecord ==
  [][ \A title \in TitleInputs, category \in CategoryInputs, subject \in SubjectInputs,
         file \in FileInputs, tags \in TagsInputs, delay \in {0, 1},
         copy_ok \in BOOLEAN, insert_ok \in BOOLEAN :
        add_note(title, category, subject, "", tags, file, now + delay, copy_ok, insert_ok)
        => /\ \A n \in notes' \ notes : n.file_path \in files'
           /\ notes \subseteq notes'
           /\ notes' # notes <=> ret'.ok
           /\ (current_user # None /\ file # NoFile /\ title # "") =>
                /\ ~copy_ok => /\ ~ret'.ok
                                /\ ret'.msg = "Error uploading file"
                                /\ UNCHANGED <<notes, note_seq, files>>
                /\ (copy_ok /\ ~insert_ok) =>
                     /\ ~ret'.ok
                     /\ ret'.msg = "Error uploading file"
                     /\ UNCHANGED <<notes, note_seq>>
                     /\ [stamp |-> now + delay, name |-> file[Len(file)]] \in files'
    ]_vars

\* An upload has failed, a stored file belongs to no note (the insert failed
\* after the copy), and a note uploaded earlier is in the catalog with its
\* file.
C16_Witness ==
  /\ ret.op = "add_note"
  /\ ret.msg = "Error uploading file"
  /\ \E path \in files : \A n \in notes : n.file_path # path
  /\ \E n \in notes : n.id > DemoNoteCount /\ n.file_path \in files

\* The tag sequences to be stored for the tags texts of the inputs.
C17_Expected(tags) ==
  CASE tags = "" -> <<>>
    [] tags = "a, b ,c" -> <<"a", "b", "c">>
    [] tags = " , x y,,\tz\n, " -> <<"x y", "z">>

\* C17: the tag sequence stored by add_note is the tags text split on commas,
\* each piece trimmed of whitespace, the pieces that are empty after trimming
\* dropped, the others kept in their order: "a, b ,c" is stored as
\* <<"a", "b", "c">>.
C17_TagsSplit ==
  [][ \A title \in TitleInputs, category \in CategoryInputs, subject \in SubjectInputs,
         file \in FileInputs, tags \in TagsInputs, delay \in {0, 1},
         copy_ok \in BOOLEAN, insert_ok \in BOOLEAN :
        ( /\ add_note(title, category, subject, "", tags, file, now + delay, copy_ok, insert_ok)
          /\ ret'.ok )
        => /\ Cardinality(notes' \ notes) = 1
           /\ \A n \in notes' \ notes :
                /\ n.tags = C17_Expected(tags)
                /\ \A i \in DOMAIN n.tags :
                     /\ n.tags[i] # ""
                     /\ Head(n.tags[i]) \notin {" ", "\t", "\n", ","}
                     /\ SubSeq(n.tags[i], Len(n.tags[i]), Len(n.tags[i])) \notin {" ", "\t", "\n", ","}
    ]_vars

\* The upload with the tags text "a, b ,c" has stored three tags.
C17_Witness ==
  /\ ret.op = "add_note"
  /\ ret.ok
  /\ \E n \in notes : n.id > DemoNoteCount /\ n.tags = <<"a", "b", "c">>

\* The average a search is to show for a note with these Rating rows.
C18_Shown(rows) ==
  IF rows = {} THEN 0
  ELSE round([num |-> SumRatings(rows), den |-> Cardinality(rows) * Star])

\* C18: the upsert of the Rating row and the write of rating_sum and
\* rating_count are one transaction.  A search taken at any statement of a
\* rate_note call shows for every note the average of the Rating rows the
\* database holds at that moment; in every state every note's rating_sum and
\* rating_count are the sum and the number of its Rating rows; the two tables
\* change only in the step in which a call returns success, so a rate_note
\* call that fails at any statement leaves both as they were.
C18_RateAtomic ==
  [][ /\ search_and_display("", "All", "rating") =>
           \A i \in DOMAIN ret'.rows :
             ret'.rows[i].avg_rating = C18_Shown(RatingsOf(ratings, ret'.rows[i].id))
      /\ \A n \in notes' :
           /\ n.rating_count = Cardinality(RatingsOf(ratings', n.id))
           /\ n.rating_sum = SumRatings(RatingsOf(ratings', n.id))
      /\ (ratings' # ratings \/ notes' # notes) => (ret'.ok /\ conn' = NoConn)
      /\ (ret'.op = "rate_note" /\ ~ret'.ok) => UNCHANGED <<ratings, notes>>
    ]_vars

\* A search has returned while a rate_note call has executed both statements
\* and not committed.
C18_Witness ==
  /\ ret.op = "search_notes"
  /\ conn.op = "rate_note"
  /\ conn.pc = "commit"
  /\ conn.ratings # ratings
  /\ conn.notes # notes

\* C19: the increment of downloads and the download_history row of one
\* download_note call are one transaction.  In every state, also when the
\* process has ended between the two statements, the database holds for every
\* note as many download_history rows as its downloads counter counts; the
\* two change only in the step in which the call returns success, and the end
\* of the process changes no table.
C19_DownloadAtomic ==
  [][ /\ \A n \in notes' :
           n.downloads = Cardinality({ h \in download_history' : h.note_id = n.id })
      /\ (notes' # notes \/ download_history' # download_history) =>
           (ret'.ok /\ conn' = NoConn)
      /\ crash => UNCHANGED tables
    ]_vars

\* The process has ended after the increment and before the download_history
\* row of a download_note call.
C19_Witness ==
  /\ ret.op = "crash"
  /\ ret.args = <<"download_note", "log">>
  /\ download_history = {}
  /\ \A n \in notes : n.downloads = 0

\* C20: in every state every note has 0 <= rating_sum <= 5 * rating_count,
\* every rating stored in the ratings table is a whole number of stars from 1
\* to 5, and a rate_note call with a value that is not one of 1, 2, 3, 4, 5
\* fails with the range error and changes no Rating row and no note's
\* rating_sum or rating_count.
C20_RatingsInRange ==
  [][ /\ \A n \in notes' :
           /\ 0 <= n.rating_sum
           /\ n.rating_sum <= 5 * Star * n.rating_count
      /\ \A r \in ratings' : r.rating \in WholeStars
      /\ \A note_id \in RatedNoteIds, rating \in SliderInputs \ WholeStars :
           (rate_note(note_id, rating, "") /\ current_user # None)
           => /\ ~ret'.ok
              /\ ret'.msg = "Rating must be between 1 and 5"
              /\ UNCHANGED <<ratings, notes>>
    ]_vars

\* C21: in every state every note of the catalog has its file_path among the
\* stored files, and no two notes of the catalog have the same file_path,
\* whatever add_note and delete_note calls came before (two add_note calls in
\* the same second with the same file name, a delete_note of one of two
\* notes).
C21_BlobsResolve ==
  \A n \in notes :
    /\ n.file_path \in files
    /\ \A m \in notes : m.id # n.id => m.file_path # n.file_path

\* C22: in every state, also when a delete_note of the same note runs between
\* the statements of a download_note call, every download_history row is of a
\* note that is in the catalog, and a download_note call that returns success
\* returns the file_path of a note that is in the catalog when the call
\* commits.
C22_DownloadOfPresentNote ==
  [][ /\ \A h \in download_history' : \E n \in notes' : n.id = h.note_id
      /\ download_note_commit(FALSE) =>
           \E n \in notes' : n.id = conn.note_id /\ n.file_path = ret'.file_path
    ]_vars

\* C23: in every state every note of the catalog has as many download_history
\* rows as its downloads counter counts; a note enters the catalog with
\* downloads 0; while a note is in the catalog its counter never decreases,
\* and it changes only in a download_note call that returns success, by one.
C23_DownloadsCountEvents ==
  [][ /\ \A n \in notes' :
           n.downloads = Cardinality({ h \in download_history' : h.note_id = n.id })
      /\ \A n \in notes' : ~NotePresent(n.id) => n.downloads = 0
      /\ \A n \in notes, m \in notes' :
           m.id = n.id =>
             /\ m.downloads >= n.downloads
             /\ m.downloads # n.downloads =>
                  /\ ret'.op = "download_note"
                  /\ ret'.ok
                  /\ m.downloads = n.downloads + 1
    ]_vars

\* An uploaded note has been downloaded and then rated, and keeps its count.
C23_Witness ==
  /\ ret.op = "rate_note"
  /\ ret.ok
  /\ \E n \in notes : /\ n.id > DemoNoteCount
                      /\ n.downloads = 1
                      /\ n.rating_count = 1
====
